---- MODULE Spec2Model ----
(***************************************************************************)
(* A model of the fragments of src/Rust/enums_pattern_matching.rs and      *)
(* src/Rust/traits.rs.  The repository is a set of independent fragments;  *)
(* a behaviour of the model runs one fragment (frag) on inputs drawn in    *)
(* Init.  Every match expression is modelled by its arms in source order   *)
(* and the top-down selection of the first arm whose pattern matches and   *)
(* whose guard holds.                                                      *)
(***************************************************************************)
EXTENDS Integers, Sequences, FiniteSets, TLC

VARIABLES
    frag,             \* the fragment this behaviour runs
    pc,               \* position of the main thread in the fragment
    arm,              \* index of the arm the last match selected (0: none yet)
    stdout,           \* the lines printed so far
    coin,             \* Coin matched by value_in_cents / the count fragments
    cents,            \* value returned by value_in_cents
    opt,              \* the Option<i32> argument x of plus_one / of match x (l.348)
    ret,              \* value returned by plus_one / by describe
    overflow_checks,  \* build profile: TRUE panics on overflow, FALSE wraps
    dice_roll,        \* scrutinee of match dice_roll
    called,           \* the call made by the selected dice_roll arm
    p,                \* Point matched at l.384
    num,              \* Option scrutinee of the match-guard fragment
    x,                \* the i32 x read by the guards at l.462 and l.470
    y,                \* the bool y read by the guard at l.471
    config_max,       \* Option<u8> of the if let fragment
    ip,               \* the IpAddress given to describe
    form,             \* which of the two equivalent forms runs: "match" / "if_let"
    count,            \* let mut count
    ux,               \* what the identifier ux of l.312 is bound to
    tx_live,          \* the Sender tx has not been dropped
    chan,             \* values in flight to rx
    ux_chan,          \* values sent on ux when it is not a sender of rx's channel
    next_val,         \* index in [1, 2, 3] of the next value the producer sends
    prod_pc,          \* position of the spawned thread
    greeters,         \* Vec<&dyn Greet>
    animals,          \* Vec<Box<dyn Animal>>
    greeter,          \* the value greeted under the trait with a default body
    dispatch,         \* how it is greeted: "static" (greet_someone) / "dynamic"
    idx               \* position of the for loop's iterator

vars == << frag, pc, arm, stdout, coin, cents, opt, ret, overflow_checks,
           dice_roll, called, p, num, x, y, config_max, ip, form, count,
           ux, tx_live, chan, ux_chan, next_val, prod_pc,
           greeters, animals, greeter, dispatch, idx >>

inputs == << frag, coin, opt, overflow_checks, dice_roll, p, num, x, y,
             config_max, ip, form, ux, greeters, animals, greeter, dispatch >>

chan_vars == << tx_live, chan, ux_chan, next_val, prod_pc >>

----------------------------------------------------------------------------
(* Bounds of the model *)

MaxK == 6          \* small integers range over -MaxK .. MaxK
MaxCoord == 2      \* Point coordinates range over -MaxCoord .. MaxCoord
MaxGreeters == 3   \* longest Vec<&dyn Greet>
MaxAnimals == 3    \* longest Vec<Box<dyn Animal>>

----------------------------------------------------------------------------
(* Values *)

None == [tag |-> "None"]
Some(v) == [tag |-> "Some", val |-> v]
IsSome(o) == o.tag = "Some"
IsNone(o) == o.tag = "None"

Nothing == "-"     \* value of a variable the running fragment does not use

I32Max == 2147483647
I32Min == -I32Max - 1

UsState == {"Alabama", "Alaska"}

\* enum Coin with the unit variant Quarter (l.112)
CoinUnit == { [tag |-> t] : t \in {"Penny", "Nickel", "Dime", "Quarter"} }

\* enum Coin with Quarter(UsState) (l.154)
Coin == { [tag |-> t] : t \in {"Penny", "Nickel", "Dime"} }
        \cup { [tag |-> "Quarter", state |-> s] : s \in UsState }

Digit(d) == << "0", "1", "2", "3", "4", "5", "6", "7", "8", "9" >>[d + 1]

\* {n} of format!/println! for a non-negative integer
RECURSIVE Decimal(_)
Decimal(n) == IF n < 10 THEN Digit(n) ELSE Decimal(n \div 10) \o Digit(n % 10)

\* {n} of format!/println! for an i32 in the model's range
Display(n) == IF n < 0 THEN "-" \o Decimal(-n) ELSE Decimal(n)

----------------------------------------------------------------------------
(* match: arms are tried top-down; the first arm whose pattern matches and *)
(* whose guard holds is selected.  An arm is [pat, guard]: whether its     *)
(* pattern matches the scrutinee, and whether its guard (TRUE when it has  *)
(* none) holds.                                                            *)

Arm(pattern, guard) == [pat |-> pattern, guard |-> guard]

RECURSIVE FirstArmFrom(_, _)
FirstArmFrom(arms, i) ==
    IF i > Len(arms) THEN 0
    ELSE IF arms[i].pat /\ arms[i].guard THEN i
    ELSE FirstArmFrom(arms, i + 1)

RECURSIVE LastArmFrom(_, _)
LastArmFrom(arms, i) ==
    IF i < 1 THEN 0
    ELSE IF arms[i].pat /\ arms[i].guard THEN i
    ELSE LastArmFrom(arms, i - 1)

SelectLastArm(arms) == LastArmFrom(arms, Len(arms))

SelectArm(arms) == FirstArmFrom(arms, 1)

----------------------------------------------------------------------------
(* fn value_in_cents *)

ValueInCentsUnitArms(c) ==
    << Arm(c.tag = "Penny", TRUE), Arm(c.tag = "Nickel", TRUE),
       Arm(c.tag = "Dime", TRUE), Arm(c.tag = "Quarter", TRUE) >>

value_in_cents_unit(c) ==
    LET a == SelectArm(ValueInCentsUnitArms(c))
    IN  [arm |-> a, ret |-> << 1, 5, 10, 25 >>[a], out |-> << >>]

ValueInCentsArms(c) ==
    << Arm(c.tag = "Penny", TRUE), Arm(c.tag = "Nickel", TRUE),
       Arm(c.tag = "Dime", TRUE), Arm(c.tag = "Quarter", TRUE) >>

value_in_cents_dime5(c) ==
    LET a == SelectArm(ValueInCentsArms(c))
    IN  [arm |-> a,
         ret |-> << 1, 5, 5, 25 >>[a],
         out |-> IF a = 4 THEN << "State quarter from " \o c.state >> ELSE << >>]

value_in_cents(c) ==
    LET a == SelectArm(ValueInCentsArms(c))
    IN  [arm |-> a,
         ret |-> << 1, 5, 10, 25 >>[a],
         out |-> IF a = 4 THEN << "State quarter from " \o c.state >> ELSE << >>]

----------------------------------------------------------------------------
(* fn plus_one *)

\* i32 addition: panics under overflow checks, wraps otherwise
I32Add(a, b, checks) ==
    IF b > 0 /\ a > I32Max - b
    THEN IF checks THEN [panic |-> TRUE]
         ELSE [panic |-> FALSE, val |-> ((a - I32Max) + (b - 1)) + I32Min]
    ELSE IF b < 0 /\ a < I32Min - b
    THEN IF checks THEN [panic |-> TRUE]
         ELSE [panic |-> FALSE, val |-> ((a - I32Min) + (b + 1)) + I32Max]
    ELSE [panic |-> FALSE, val |-> a + b]

PlusOneArms(o) == << Arm(IsNone(o), TRUE), Arm(IsSome(o), TRUE) >>

plus_one(o, checks) ==
    LET a == SelectArm(PlusOneArms(o))
    IN  IF a = 1 THEN [arm |-> a, panic |-> FALSE, ret |-> None]
        ELSE LET s == I32Add(o.val, 1, checks)
             IN  IF s.panic THEN [arm |-> a, panic |-> TRUE, ret |-> Nothing]
                 ELSE [arm |-> a, panic |-> FALSE, ret |-> Some(s.val)]

----------------------------------------------------------------------------
(* match dice_roll (l.207) *)

DiceRollArms(d) == << Arm(d = 2, TRUE), Arm(d = 3, TRUE), Arm(TRUE, TRUE) >>

match_dice_roll(d) ==
    LET a == SelectArm(DiceRollArms(d))
    IN  [arm |-> a,
         called |-> CASE a = 1 -> << "add_fancy_hat" >>
                      [] a = 2 -> << "remove_fancy_hat" >>
                      [] a = 3 -> << "move_player", d >>]

----------------------------------------------------------------------------
(* match x with a literal arm before a binding arm (l.348) *)

NamedArms(o) ==
    << Arm(o = Some(50), TRUE), Arm(IsSome(o), TRUE), Arm(TRUE, TRUE) >>

match_named(o) ==
    LET a == SelectArm(NamedArms(o))
    IN  [arm |-> a,
         out |-> CASE a = 1 -> << "50" >>
                   [] a = 2 -> << Display(o.val) >>
                   [] a = 3 -> << >>]

----------------------------------------------------------------------------
(* match p over struct Point (l.384) *)

Point == [x : -MaxCoord .. MaxCoord, y : -MaxCoord .. MaxCoord]

PointArms(pt) ==
    << Arm(pt.y = 0, TRUE), Arm(pt.x = 0, TRUE), Arm(TRUE, TRUE) >>

match_point(pt) ==
    LET a == SelectArm(PointArms(pt))
    IN  [arm |-> a,
         out |-> CASE a = 1 -> << "On x-axis at " \o Display(pt.x) >>
                   [] a = 2 -> << "On y-axis at " \o Display(pt.y) >>
                   [] a = 3 -> << "On neither axist, at ("
                                  \o Display(pt.x) \o ", " \o Display(pt.y) \o ")" >>]

----------------------------------------------------------------------------
(* match guards (l.458, l.467) *)

\* the % of i32: the remainder has the sign of the dividend
I32Rem(a, b) == IF a >= 0 THEN a % b ELSE -((-a) % b)

\* the guard of the first arm reads x, not the k the pattern binds
GuardArms(n, xv) ==
    << Arm(IsSome(n), I32Rem(xv, 2) = 0), Arm(IsSome(n), TRUE),
       Arm(IsNone(n), TRUE) >>

match_guard(n, xv) ==
    LET a == SelectArm(GuardArms(n, xv))
    IN  [arm |-> a,
         out |-> CASE a = 1 -> << "The number " \o Display(n.val) \o " is even." >>
                   [] a = 2 -> << "The number " \o Display(n.val) \o " is odd." >>
                   [] a = 3 -> << >>]

GuardAltArmsLastOnly(xv, yv) ==
    << Arm(xv = 4 \/ xv = 5 \/ (xv = 6 /\ yv), TRUE), Arm(TRUE, TRUE) >>

\* 4 | 5 | 6 if y: one pattern with three alternatives, one guard
GuardAltArms(xv, yv) == << Arm(xv \in {4, 5, 6}, yv), Arm(TRUE, TRUE) >>

match_guard_alt(xv, yv) ==
    LET a == SelectArm(GuardAltArms(xv, yv))
    IN  [arm |-> a, out |-> IF a = 1 THEN << "yes" >> ELSE << >>]

----------------------------------------------------------------------------
(* if let and the match it abbreviates (l.225, l.251) *)

ConfigMaxArms(c) == << Arm(IsSome(c), TRUE), Arm(TRUE, TRUE) >>

config_max_match(c) ==
    LET a == SelectArm(ConfigMaxArms(c))
    IN  IF a = 1 THEN << "The maximum is configured to be " \o Decimal(c.val) >>
        ELSE << >>

config_max_if_let(c) ==
    IF IsSome(c) THEN << "The maximum is configured to be " \o Decimal(c.val) >>
    ELSE << >>

CountArms(c) == << Arm(c.tag = "Quarter", TRUE), Arm(TRUE, TRUE) >>

count_match(c, n) ==
    LET a == SelectArm(CountArms(c))
    IN  IF a = 1
        THEN [count |-> n, out |-> << "State quarter from " \o c.state \o "!" >>]
        ELSE [count |-> n + 1, out |-> << >>]

count_if_let_no_else(c, n) ==
    IF c.tag = "Quarter"
    THEN [count |-> n, out |-> << "State quarter from " \o c.state \o "!" >>]
    ELSE [count |-> n, out |-> << >>]

count_if_let(c, n) ==
    IF c.tag = "Quarter"
    THEN [count |-> n, out |-> << "State quarter from " \o c.state \o "!" >>]
    ELSE [count |-> n + 1, out |-> << >>]

----------------------------------------------------------------------------
(* enum IpAddress (l.19) and describe.  The source declares the enum and   *)
(* constructs home and loopback; describe is specified, not present in the *)
(* source, and is modelled from its specification.                         *)

V4(a, b, c, d) == [tag |-> "V4", f |-> << a, b, c, d >>]
V6(s) == [tag |-> "V6", s |-> s]

\* u8 fields and texts the model constructs addresses from
Octets == {0, 1, 10, 127, 255}

IpAddress ==
    { V4(a, b, c, d) : a \in Octets, b \in Octets, c \in Octets, d \in Octets }
    \cup { V6(s) : s \in {"::1", "::", "fe80::1"} }

DescribeArms(k) == << Arm(k.tag = "V4", TRUE), Arm(k.tag = "V6", TRUE) >>

describe_undotted(k) ==
    LET a == SelectArm(DescribeArms(k))
    IN  IF a = 1
        THEN Decimal(k.f[1]) \o Decimal(k.f[2]) \o Decimal(k.f[3]) \o Decimal(k.f[4])
        ELSE k.s

describe(k) ==
    LET a == SelectArm(DescribeArms(k))
    IN  IF a = 1
        THEN Decimal(k.f[1]) \o "." \o Decimal(k.f[2]) \o "."
             \o Decimal(k.f[3]) \o "." \o Decimal(k.f[4])
        ELSE k.s

----------------------------------------------------------------------------
(* trait Greet and its implementations (traits.rs l.6-39) *)

Person(name) == [type |-> "Person", name |-> name]
Robot == [type |-> "Robot"]
Color(variant) == [type |-> "Color", variant |-> variant]

GreetObjects ==
    { Person("Alice"), Person("Rust"), Robot,
      Color("Red"), Color("Blue"), Color("Green") }

Person_say_hello(self) == "My name is " \o self.name

Robot_say_hello(self) == "I am a robot"

ColorArms(self) ==
    << Arm(self.variant = "Red", TRUE), Arm(self.variant = "Blue", TRUE),
       Arm(self.variant = "Green", TRUE) >>

Color_say_hello(self) == << "Red", "Blue", "Green" >>[SelectArm(ColorArms(self))]

\* a call through &dyn Greet: the implementation of the object's own type
say_hello(self) ==
    CASE self.type = "Person" -> Person_say_hello(self)
      [] self.type = "Robot"  -> Robot_say_hello(self)
      [] self.type = "Color"  -> Color_say_hello(self)

dynamic_greet_as_robot(g) == << Robot_say_hello(g) >>

dynamic_greet(g) == << say_hello(g) >>

(* trait Greet with a default say_hello (traits.rs l.103-111, l.192-196).  *)
(* Robot and Bird are implemented with an empty impl block; Person and     *)
(* Color keep the say_hello of their own impl block.                       *)

Bird == [type |-> "Bird"]

DefaultGreetObjects == GreetObjects \cup { Bird, Person("Bob") }

Greet_say_hello(self) == "Default hello"

ImplItemsRobotOwn(type) ==
    IF type \in {"Person", "Color", "Robot"} THEN {"say_hello"} ELSE {}

\* the methods the impl block of a type supplies
ImplItems(type) ==
    CASE type = "Person" -> {"say_hello"}
      [] type = "Color"  -> {"say_hello"}
      [] type = "Robot"  -> {}
      [] type = "Bird"   -> {}

\* the say_hello in effect for a type: its own if its impl block has one,
\* the trait's default body otherwise
ResolveSayHello(type) == IF "say_hello" \in ImplItems(type) THEN type ELSE "Greet"

Invoke(impl, self) ==
    CASE impl = "Person" -> Person_say_hello(self)
      [] impl = "Color"  -> Color_say_hello(self)
      [] impl = "Robot"  -> Robot_say_hello(self)
      [] impl = "Greet"  -> Greet_say_hello(self)

\* &impl Greet: the call is resolved for the concrete type at the call site
greet_someone(g) == << Invoke(ResolveSayHello(g.type), g) >>

\* &dyn Greet: the call goes through the vtable of the object's type
VTable(type) == [say_hello |-> ResolveSayHello(type)]

dynamic_greet_default(g) == << Invoke(VTable(g.type).say_hello, g) >>

(* trait Animal (traits.rs l.136-156) *)

AnimalObjects == { [type |-> "Dog"], [type |-> "Cat"] }

Dog_speak(self) == << "Woof!" >>

Cat_speak(self) == << "Meow!" >>

speak(self) ==
    CASE self.type = "Dog" -> Dog_speak(self)
      [] self.type = "Cat" -> Cat_speak(self)

SeqsUpTo(S, n) == UNION { [1 .. k -> S] : k \in 0 .. n }

----------------------------------------------------------------------------
(* Inputs *)

Fragments ==
    { "value_in_cents_unit", "value_in_cents", "plus_one", "dice_roll", "named",
      "point", "guard", "guard_alt", "config_max", "count", "describe", "channel",
      "greeters", "animals", "default_greet" }

SmallInts == -MaxK .. MaxK

OptionI32 ==
    {None} \cup { Some(v) : v \in {I32Min, I32Min + 1, I32Max - 1, I32Max} \cup SmallInts }

OptionSmall == {None} \cup { Some(v) : v \in SmallInts \cup {50} }

OptionU8 == {None} \cup { Some(v) : v \in (0 .. MaxK) \cup {255} }

\* the values the producer sends, for val in [1, 2, 3]
Vals == << 1, 2, 3 >>

Pick(f, fs, S) == IF f \in fs THEN S ELSE {Nothing}

Init ==
    /\ frag \in Fragments
    /\ pc = "start"
    /\ arm = 0
    /\ stdout = << >>
    /\ coin \in IF frag = "value_in_cents_unit" THEN CoinUnit
                ELSE Pick(frag, {"value_in_cents", "count"}, Coin)
    /\ cents = Nothing
    /\ opt \in IF frag = "plus_one" THEN OptionI32
               ELSE Pick(frag, {"named"}, OptionSmall)
    /\ ret = Nothing
    /\ overflow_checks \in Pick(frag, {"plus_one"}, BOOLEAN)
    /\ dice_roll \in Pick(frag, {"dice_roll"}, SmallInts)
    /\ called = Nothing
    /\ p \in Pick(frag, {"point"}, Point)
    /\ num \in Pick(frag, {"guard"}, OptionSmall)
    /\ x \in Pick(frag, {"guard", "guard_alt"}, SmallInts)
    /\ y \in Pick(frag, {"guard_alt"}, BOOLEAN)
    /\ config_max \in Pick(frag, {"config_max"}, OptionU8)
    /\ ip \in Pick(frag, {"describe"}, IpAddress)
    /\ form \in Pick(frag, {"config_max", "count"}, {"match", "if_let"})
    /\ count = IF frag = "count" THEN 0 ELSE Nothing
    /\ ux \in Pick(frag, {"channel"}, {"tx", "other"})
    /\ tx_live = TRUE
    /\ chan = << >>
    /\ ux_chan = << >>
    /\ next_val = 1
    /\ prod_pc = IF frag = "channel" THEN "running" ELSE Nothing
    /\ greeters \in Pick(frag, {"greeters"}, SeqsUpTo(GreetObjects, MaxGreeters))
    /\ animals \in Pick(frag, {"animals"}, SeqsUpTo(AnimalObjects, MaxAnimals))
    /\ greeter \in Pick(frag, {"default_greet"}, DefaultGreetObjects)
    /\ dispatch \in Pick(frag, {"default_greet"}, {"static", "dynamic"})
    /\ idx = 1

----------------------------------------------------------------------------
(* The fragments that evaluate one expression *)

locals == << cents, ret, called, count, idx >>

ValueInCentsUnit ==
    /\ frag = "value_in_cents_unit" /\ pc = "start"
    /\ LET r == value_in_cents_unit(coin)
       IN  arm' = r.arm /\ cents' = r.ret /\ stdout' = stdout \o r.out
    /\ pc' = "done"
    /\ UNCHANGED << inputs, chan_vars, ret, called, count, idx >>

ValueInCents ==
    /\ frag = "value_in_cents" /\ pc = "start"
    /\ LET r == value_in_cents(coin)
       IN  arm' = r.arm /\ cents' = r.ret /\ stdout' = stdout \o r.out
    /\ pc' = "done"
    /\ UNCHANGED << inputs, chan_vars, ret, called, count, idx >>

PlusOne ==
    /\ frag = "plus_one" /\ pc = "start"
    /\ LET r == plus_one(opt, overflow_checks)
       IN  /\ arm' = r.arm
           /\ ret' = r.ret
           /\ pc' = IF r.panic THEN "panicked" ELSE "done"
    /\ UNCHANGED << inputs, chan_vars, stdout, cents, called, count, idx >>

MatchDiceRoll ==
    /\ frag = "dice_roll" /\ pc = "start"
    /\ LET r == match_dice_roll(dice_roll)
       IN  arm' = r.arm /\ called' = r.called
    /\ pc' = "done"
    /\ UNCHANGED << inputs, chan_vars, stdout, cents, ret, count, idx >>

MatchNamed ==
    /\ frag = "named" /\ pc = "start"
    /\ LET r == match_named(opt)
       IN  arm' = r.arm /\ stdout' = stdout \o r.out
    /\ pc' = "done"
    /\ UNCHANGED << inputs, chan_vars, locals >>

MatchPoint ==
    /\ frag = "point" /\ pc = "start"
    /\ LET r == match_point(p)
       IN  arm' = r.arm /\ stdout' = stdout \o r.out
    /\ pc' = "done"
    /\ UNCHANGED << inputs, chan_vars, locals >>

MatchGuard ==
    /\ frag = "guard" /\ pc = "start"
    /\ LET r == match_guard(num, x)
       IN  arm' = r.arm /\ stdout' = stdout \o r.out
    /\ pc' = "done"
    /\ UNCHANGED << inputs, chan_vars, locals >>

MatchGuardAlt ==
    /\ frag = "guard_alt" /\ pc = "start"
    /\ LET r == match_guard_alt(x, y)
       IN  arm' = r.arm /\ stdout' = stdout \o r.out
    /\ pc' = "done"
    /\ UNCHANGED << inputs, chan_vars, locals >>

ConfigMaxMatch ==
    /\ frag = "config_max" /\ form = "match" /\ pc = "start"
    /\ stdout' = stdout \o config_max_match(config_max)
    /\ pc' = "done"
    /\ UNCHANGED << inputs, chan_vars, locals, arm >>

ConfigMaxIfLet ==
    /\ frag = "config_max" /\ form = "if_let" /\ pc = "start"
    /\ stdout' = stdout \o config_max_if_let(config_max)
    /\ pc' = "done"
    /\ UNCHANGED << inputs, chan_vars, locals, arm >>

CountMatch ==
    /\ frag = "count" /\ form = "match" /\ pc = "start"
    /\ LET r == count_match(coin, count)
       IN  count' = r.count /\ stdout' = stdout \o r.out
    /\ pc' = "done"
    /\ UNCHANGED << inputs, chan_vars, cents, ret, called, idx, arm >>

CountIfLet ==
    /\ frag = "count" /\ form = "if_let" /\ pc = "start"
    /\ LET r == count_if_let(coin, count)
       IN  count' = r.count /\ stdout' = stdout \o r.out
    /\ pc' = "done"
    /\ UNCHANGED << inputs, chan_vars, cents, ret, called, idx, arm >>

Describe ==
    /\ frag = "describe" /\ pc = "start"
    /\ ret' = describe(ip)
    /\ pc' = "done"
    /\ UNCHANGED << inputs, chan_vars, stdout, cents, called, count, idx, arm >>

----------------------------------------------------------------------------
(* The producer thread and the while let loop (l.309-318).  The closure    *)
(* sends on ux, an identifier the fragment does not declare: ux is either  *)
(* the sender tx of rx's channel, which the move closure then owns, or a   *)
(* sender of some other channel, and then tx stays with the main thread.   *)

Send ==
    /\ frag = "channel" /\ prod_pc = "running"
    /\ next_val <= Len(Vals)
    /\ IF ux = "tx"
       THEN chan' = Append(chan, Vals[next_val]) /\ UNCHANGED ux_chan
       ELSE ux_chan' = Append(ux_chan, Vals[next_val]) /\ UNCHANGED chan
    /\ next_val' = next_val + 1
    /\ UNCHANGED << inputs, locals, pc, arm, stdout, tx_live, prod_pc >>

\* the closure returns and drops what it captured
ProducerExit ==
    /\ frag = "channel" /\ prod_pc = "running"
    /\ next_val > Len(Vals)
    /\ prod_pc' = "done"
    /\ tx_live' = IF ux = "tx" THEN FALSE ELSE tx_live
    /\ UNCHANGED << inputs, locals, pc, arm, stdout, chan, ux_chan, next_val >>

\* rx.recv() returns Ok(value); the loop body prints it
Recv ==
    /\ frag = "channel" /\ pc = "start"
    /\ chan # << >>
    /\ stdout' = Append(stdout, Display(Head(chan)))
    /\ chan' = Tail(chan)
    /\ UNCHANGED << inputs, locals, pc, arm, tx_live, ux_chan, next_val, prod_pc >>

\* rx.recv() returns Err: no value is buffered and every sender is dropped
RecvDisconnected ==
    /\ frag = "channel" /\ pc = "start"
    /\ chan = << >> /\ ~tx_live
    /\ pc' = "done"
    /\ UNCHANGED << inputs, locals, chan_vars, arm, stdout >>

----------------------------------------------------------------------------
(* The for loops over trait objects (traits.rs l.85, l.154) *)

GreetNext ==
    /\ frag = "greeters" /\ pc = "start"
    /\ idx <= Len(greeters)
    /\ stdout' = stdout \o dynamic_greet(greeters[idx])
    /\ idx' = idx + 1
    /\ UNCHANGED << inputs, chan_vars, cents, ret, called, count, pc, arm >>

GreetersEnd ==
    /\ frag = "greeters" /\ pc = "start"
    /\ idx > Len(greeters)
    /\ pc' = "done"
    /\ UNCHANGED << inputs, chan_vars, locals, arm, stdout >>

SpeakNext ==
    /\ frag = "animals" /\ pc = "start"
    /\ idx <= Len(animals)
    /\ stdout' = stdout \o speak(animals[idx])
    /\ idx' = idx + 1
    /\ UNCHANGED << inputs, chan_vars, cents, ret, called, count, pc, arm >>

AnimalsEnd ==
    /\ frag = "animals" /\ pc = "start"
    /\ idx > Len(animals)
    /\ pc' = "done"
    /\ UNCHANGED << inputs, chan_vars, locals, arm, stdout >>

GreetSomeone ==
    /\ frag = "default_greet" /\ dispatch = "static" /\ pc = "start"
    /\ stdout' = stdout \o greet_someone(greeter)
    /\ pc' = "done"
    /\ UNCHANGED << inputs, chan_vars, locals, arm >>

DynamicGreet ==
    /\ frag = "default_greet" /\ dispatch = "dynamic" /\ pc = "start"
    /\ stdout' = stdout \o dynamic_greet_default(greeter)
    /\ pc' = "done"
    /\ UNCHANGED << inputs, chan_vars, locals, arm >>

----------------------------------------------------------------------------

Next ==
    \/ ValueInCentsUnit \/ ValueInCents \/ PlusOne
    \/ MatchDiceRoll \/ MatchNamed \/ MatchPoint
    \/ MatchGuard \/ MatchGuardAlt
    \/ ConfigMaxMatch \/ ConfigMaxIfLet \/ CountMatch \/ CountIfLet
    \/ Describe
    \/ Send \/ ProducerExit \/ Recv \/ RecvDisconnected
    \/ GreetNext \/ GreetersEnd \/ SpeakNext \/ AnimalsEnd
    \/ GreetSomeone \/ DynamicGreet

Spec == Init /\ [][Next]_vars

----------------------------------------------------------------------------
(* Properties *)

Done(f) == frag = f /\ pc = "done"

CentsOf(tag) ==
    CASE tag = "Penny" -> 1 [] tag = "Nickel" -> 5
      [] tag = "Dime" -> 10 [] tag = "Quarter" -> 25

\* C1: value_in_cents is total and fixed: it returns 1, 5, 10, 25 for Penny,
\* Nickel, Dime, Quarter, and 25 for Quarter(state) whatever the state is.
C1_ValueInCents ==
    /\ Done("value_in_cents") =>
          /\ arm \in 1 .. 4
          /\ cents = CentsOf(coin.tag)
          /\ coin.tag = "Quarter" => cents = 25
    /\ Done("value_in_cents_unit") =>
          /\ arm \in 1 .. 4
          /\ cents = CentsOf(coin.tag)

C1_Witness ==
    /\ Done("value_in_cents")
    /\ coin = [tag |-> "Quarter", state |-> "Alaska"]
    /\ cents = 25

\* C2: plus_one(None) is None and plus_one(Some(v)) is Some(v + 1) for every
\* i32 v, both bounds included: the call returns, and the returned value is
\* the successor of v.
C2_PlusOne ==
    (frag = "plus_one" /\ pc # "start") =>
        /\ pc = "done"
        /\ IsNone(opt) => ret = None
        /\ IsSome(opt) => /\ IsSome(ret)
                          /\ ret.val > opt.val
                          /\ ret.val - opt.val = 1

\* C3: with the arms Some(k) if even, Some(k), None, the match yields "even"
\* exactly when the matched value k is even, and "odd" otherwise.
C3_GuardEven ==
    (Done("guard") /\ IsSome(num)) =>
        /\ (arm = 1) <=> (I32Rem(num.val, 2) = 0)
        /\ (arm = 2) <=> (I32Rem(num.val, 2) # 0)
        /\ num = Some(4) => stdout = << "The number 4 is even." >>
        /\ num = Some(3) => stdout = << "The number 3 is odd." >>

IsPrefix(s, t) == Len(s) <= Len(t) /\ \A i \in 1 .. Len(s) : s[i] = t[i]

\* C4: the while let loop observes exactly 1, 2, 3, each once and in the order
\* sent: what it has printed is always a prefix of 1, 2, 3, and once the
\* producer has finished and nothing is in flight it has printed all three.
C4_Fifo ==
    frag = "channel" =>
        /\ IsPrefix(stdout, << "1", "2", "3" >>)
        /\ (prod_pc = "done" /\ chan = << >>) => stdout = << "1", "2", "3" >>

\* C5: the consumer loop terminates: once the producer has finished the
\* channel is closed, the loop is never blocked for good (it has exited or a
\* step is possible), and it exits only after all three values were received.
C5_Terminates ==
    frag = "channel" =>
        /\ prod_pc = "done" => ~tx_live
        /\ pc = "done" \/ ENABLED Next
        /\ pc = "done" => stdout = << "1", "2", "3" >>

OwnGreeting(o) ==
    CASE o = Person("Alice") -> "My name is Alice"
      [] o = Person("Rust")  -> "My name is Rust"
      [] o = Robot           -> "I am a robot"
      [] o = Color("Red")    -> "Red"
      [] o = Color("Blue")   -> "Blue"
      [] o = Color("Green")  -> "Green"

OwnSound(o) == IF o.type = "Dog" THEN "Woof!" ELSE "Meow!"

\* C6: iterating a collection of trait objects invokes each element's own
\* implementation exactly once and in iteration order: after k iterations the
\* output is the own greeting (sound) of the first k elements, in order, and
\* the loop ends after the last element.
C6_DynamicDispatch ==
    /\ frag = "greeters" =>
          /\ Len(stdout) = idx - 1
          /\ idx <= Len(greeters) + 1
          /\ \A i \in 1 .. Len(stdout) : stdout[i] = OwnGreeting(greeters[i])
          /\ pc = "done" => Len(stdout) = Len(greeters)
          /\ (pc = "done" /\ greeters = << Person("Alice"), Robot, Color("Green") >>)
                => stdout = << "My name is Alice", "I am a robot", "Green" >>
    /\ frag = "animals" =>
          /\ Len(stdout) = idx - 1
          /\ idx <= Len(animals) + 1
          /\ \A i \in 1 .. Len(stdout) : stdout[i] = OwnSound(animals[i])
          /\ pc = "done" => Len(stdout) = Len(animals)
          /\ (pc = "done" /\ animals = << [type |-> "Dog"], [type |-> "Cat"] >>)
                => stdout = << "Woof!", "Meow!" >>

C6_Witness ==
    /\ Done("greeters")
    /\ greeters = << Person("Alice"), Robot, Color("Green") >>
    /\ stdout = << "My name is Alice", "I am a robot", "Green" >>

\* C7: if let (with or without else) gives the same result as the match it
\* abbreviates: from count = 0 either form leaves count = 1 exactly when the
\* coin is not a Quarter and reports the state exactly when it is; either
\* form on config_max prints the maximum exactly when it is Some.
C7_IfLetIsMatch ==
    /\ Done("count") =>
          /\ count = IF coin.tag = "Quarter" THEN 0 ELSE 1
          /\ coin.tag # "Quarter" => stdout = << >>
          /\ coin = [tag |-> "Quarter", state |-> "Alabama"]
                => stdout = << "State quarter from Alabama!" >>
          /\ coin = [tag |-> "Quarter", state |-> "Alaska"]
                => stdout = << "State quarter from Alaska!" >>
          /\ count_if_let(coin, 0) = count_match(coin, 0)
    /\ Done("config_max") =>
          /\ IsNone(config_max) => stdout = << >>
          /\ IsSome(config_max) => Len(stdout) = 1
          /\ config_max = Some(3) => stdout = << "The maximum is configured to be 3" >>
          /\ config_max_if_let(config_max) = config_max_match(config_max)

C7_Witness ==
    /\ Done("count") /\ form = "if_let"
    /\ coin = [tag |-> "Penny"]
    /\ count = 1

\* C8: describe formats V4(a, b, c, d) as the four fields in decimal joined
\* by dots and returns the text of V6(s) unchanged.
C8_Describe ==
    Done("describe") =>
        /\ ip = V4(127, 0, 0, 1) => ret = "127.0.0.1"
        /\ ip = V4(255, 255, 10, 0) => ret = "255.255.10.0"
        /\ ip.tag = "V6" => ret = ip.s
        /\ ip = V6("::1") => ret = "::1"

C8_Witness == Done("describe") /\ ip = V4(127, 0, 0, 1) /\ ret = "127.0.0.1"

\* C9: an arm whose pattern matches but whose guard is false is skipped and a
\* later arm is selected; the guard of 4 | 5 | 6 if y covers all three
\* alternatives: the arm is taken exactly when x is 4, 5 or 6 and y holds.
C9_GuardSkips ==
    /\ Done("guard_alt") =>
          /\ (arm = 1) <=> (x \in {4, 5, 6} /\ y)
          /\ (arm = 2) <=> ~(x \in {4, 5, 6} /\ y)
          /\ (x = 4 /\ ~y) => (arm = 2 /\ stdout = << >>)
          /\ (x \in {4, 5, 6} /\ y) => stdout = << "yes" >>
    /\ (Done("guard") /\ IsSome(num) /\ I32Rem(x, 2) # 0) => arm = 2

C9_Witness == Done("guard_alt") /\ x = 4 /\ y = FALSE /\ arm = 2

EarliestMatching(arms, a) ==
    /\ a \in 1 .. Len(arms)
    /\ arms[a].pat
    /\ \A j \in 1 .. (a - 1) : ~arms[j].pat

\* C10: the first matching arm wins.  Point: y = 0 selects the x-axis arm
\* (the origin too), x = 0 with y # 0 the y-axis arm, anything else the last
\* arm.  Option: Some(50) selects the literal arm, any other Some(k) the
\* binding arm.  dice_roll: the catch-all is selected exactly for values
\* other than 2 and 3.
C10_FirstArmWins ==
    /\ Done("point") =>
          /\ EarliestMatching(PointArms(p), arm)
          /\ p.y = 0 => arm = 1
          /\ (p.x = 0 /\ p.y # 0) => arm = 2
          /\ (p.x # 0 /\ p.y # 0) => arm = 3
    /\ Done("named") =>
          /\ EarliestMatching(NamedArms(opt), arm)
          /\ opt = Some(50) => arm = 1
          /\ (IsSome(opt) /\ opt # Some(50)) => arm = 2
          /\ IsNone(opt) => arm = 3
    /\ Done("dice_roll") =>
          /\ EarliestMatching(DiceRollArms(dice_roll), arm)
          /\ (arm = 3) <=> (dice_roll \notin {2, 3})
          /\ dice_roll = 2 => called = << "add_fancy_hat" >>
          /\ dice_roll = 3 => called = << "remove_fancy_hat" >>
          /\ arm = 3 => called = << "move_player", dice_roll >>

C10_Witness == Done("point") /\ p = [x |-> 0, y |-> 0] /\ arm = 1

\* C11: under the Greet trait with a default say_hello, a type with an empty
\* impl block (Robot, Bird) greets with "Default hello", a type with its own
\* say_hello (Person, Color) greets with its own text and never the default,
\* and the greeting is the same through greet_someone and through a trait
\* object.
C11_DefaultSayHello ==
    Done("default_greet") =>
        /\ greeter \in {Robot, Bird} => stdout = << "Default hello" >>
        /\ greeter = Person("Alice") => stdout = << "My name is Alice" >>
        /\ greeter = Person("Rust") => stdout = << "My name is Rust" >>
        /\ greeter = Person("Bob") => stdout = << "My name is Bob" >>
        /\ greeter.type = "Color" => stdout = << greeter.variant >>
        /\ greeter.type \in {"Person", "Color"} => stdout # << "Default hello" >>
        /\ Len(stdout) = 1
        /\ greet_someone(greeter) = dynamic_greet_default(greeter)

C11_Witness ==
    /\ Done("default_greet") /\ dispatch = "dynamic"
    /\ greeter = Robot
    /\ stdout = << "Default hello" >>

====
